---------------------------- MODULE Spec2Model ----------------------------
(***************************************************************************)
(* Route handlers of Gen-edu:                                              *)
(*   - admin user resource   src/app/api/admin/users/[id]/route.ts         *)
(*       PUT, DELETE on the `users` collection                             *)
(*   - notebook resource     src/unnamed/part_000                          *)
(*       GET, PUT, DELETE on the Notebook collection                       *)
(*                                                                         *)
(* A handler is an async function: between two awaited database calls any  *)
(* other request may run.  Every awaited database call is one atomic step  *)
(* of the model; the synchronous code before it belongs to the same step.  *)
(* A request occupies a slot from its first database call to its response. *)
(*                                                                         *)
(* Encoding of JavaScript values:                                          *)
(*   - a request body is a function whose DOMAIN is the set of keys the    *)
(*     body supplies (a key outside DOMAIN is `undefined`);                *)
(*   - e-mail addresses and names are sequences of characters, so that     *)
(*     toLowerCase() and trim() are computed and not assumed;              *)
(*   - JsNull / JsNullStr stand for the JavaScript value null.             *)
(***************************************************************************)
EXTENDS Integers, Sequences, FiniteSets, TLC

VARIABLES
    users,      \* the `users` collection: userId -> document
    areq,       \* admin request slots: slot -> request in flight
    aStarts,    \* number of admin requests received so far (logical time)
    aresp,      \* the response sent last: [op, status]
    roleSet,    \* history: some PUT has written a `role` field
    delLog,     \* history: userId -> admin count read by the DELETE that removed it
    notebooks,  \* the Notebook collection: notebookId -> document
    nreq,       \* notebook request slots: slot -> request in flight
    nStarts,    \* number of notebook requests received so far (logical time)
    nresp,      \* the response sent last: [op, caller, id, status]
    activity,   \* the records ActivityTracker.trackActivity has appended
    putSaved,   \* history: number of PUT requests whose save was written
    viewGets    \* history: number of GET requests by a non-owner answered 200

avars == <<users, areq, aStarts, aresp, roleSet, delLog>>

nvars == <<notebooks, nreq, nStarts, nresp, activity, putSaved, viewGets>>

vars == <<avars, nvars>>

-----------------------------------------------------------------------------
(* Bounds of the model *)

\* admin requests received in one behaviour
MaxAdminReqs == 2

\* admin requests in flight at the same time
AdminSlots == {1, 2}

\* notebook requests received in one behaviour
MaxNotebookReqs == 2

\* notebook requests in flight at the same time
NotebookSlots == {1, 2}

-----------------------------------------------------------------------------
(* JavaScript values *)

\* null where the other values are TLA+ strings (role)
JsNull == "<null>"

\* null where the other values are character sequences (email, name)
JsNullStr == <<"<null>">>

\* if (v): the empty string and null are falsy, every other string is truthy
Truthy(v) == v /= "" /\ v /= JsNull

TruthyStr(v) == v /= <<>> /\ v /= JsNullStr

LowerChar(c) ==
    CASE c = "A" -> "a"
      [] c = "B" -> "b"
      [] c = "C" -> "c"
      [] c = "X" -> "x"
      [] OTHER -> c

\* String.prototype.toLowerCase
ToLowerCase(s) == [i \in 1..Len(s) |-> LowerChar(s[i])]

RECURSIVE TrimStart(_)
TrimStart(s) ==
    IF s /= <<>> /\ Head(s) = " " THEN TrimStart(Tail(s)) ELSE s

RECURSIVE TrimEnd(_)
TrimEnd(s) ==
    IF s /= <<>> /\ s[Len(s)] = " " THEN TrimEnd(SubSeq(s, 1, Len(s) - 1)) ELSE s

\* String.prototype.trim
Trim(s) == TrimEnd(TrimStart(s))

\* AuthUtils.isValidEmail: local@domain, no white space, one "@"
isValidEmail(e) ==
    /\ e /= JsNullStr
    /\ \A i \in 1..Len(e) : e[i] /= " "
    /\ Cardinality({i \in 1..Len(e) : e[i] = "@"}) = 1
    /\ Len(e) >= 3
    /\ e[1] /= "@"
    /\ e[Len(e)] /= "@"


-----------------------------------------------------------------------------
(* The users collection *)

UserIds == {"u1", "u2"}

\* a path parameter that names no stored user
MissingUserId == "u0"

Roles == {"student", "teacher", "admin"}

EmailOf(u) == IF u = "u1" THEN <<"a", "@", "x">> ELSE <<"b", "@", "x">>

\* the collections the model starts from: one admin or two
InitialRoles == { [u \in UserIds |-> IF u = "u1" THEN "admin" ELSE r] : r \in Roles }

UserDoc(u, role) ==
    [userId |-> u, email |-> EmailOf(u), role |-> role, name |-> <<"n">>,
     isVerified |-> FALSE, status |-> "active", password |-> "hash",
     updatedAt |-> 0]

\* collection.countDocuments({ role: 'admin' })
AdminCount(coll) == Cardinality({u \in DOMAIN coll : coll[u].role = "admin"})

EmptyBody == [k \in {} |-> ""]

\* request bodies of Admin User PUT
RoleInputs == {"student", "root", "", JsNull}

EmailInputs == { <<"A", "@", "x">>, <<"b", "a", "d">>, <<>> }

AdminBodies ==
    {EmptyBody}
    \cup {("role" :> r) : r \in RoleInputs}
    \cup {("email" :> e) : e \in EmailInputs}
    \cup {[name |-> <<" ", "m", " ">>, email |-> JsNullStr]}
    \cup {[name |-> <<"m">>, email |-> <<"D", "@", "x">>, role |-> "admin",
           isVerified |-> TRUE, status |-> "suspended"]}

Has(body, k) == k \in DOMAIN body

IdleAdminReq ==
    [op |-> "none", pc |-> "idle", id |-> "", body |-> EmptyBody,
     updateDoc |-> EmptyBody, adminCount |-> 0]

NoResponse == [op |-> "none", status |-> 0]


\* a request is taken by the first free slot (the slots are interchangeable)
AdminSlotFree(s) ==
    /\ areq[s].pc = "idle"
    /\ \A t \in AdminSlots : t < s => areq[t].pc /= "idle"
    /\ aStarts < MaxAdminReqs

\* NextResponse.json(..., { status }): the request ends and frees its slot
AdminRespond(s, op, status) ==
    /\ areq' = [areq EXCEPT ![s] = IdleAdminReq]
    /\ aresp' = [op |-> op, status |-> status]

AdminContinue(s, r) ==
    /\ areq' = [areq EXCEPT ![s] = r]
    /\ UNCHANGED aresp

-----------------------------------------------------------------------------
(* Admin User PUT *)

\* role && !['student', 'teacher', 'admin'].includes(role)
InvalidRole(body) ==
    Has(body, "role") /\ Truthy(body.role) /\ body.role \notin Roles

\* email && !AuthUtils.isValidEmail(email)
InvalidEmail(body) ==
    Has(body, "email") /\ TruthyStr(body.email) /\ ~isValidEmail(body.email)

\* email && email.toLowerCase() !== existingUser.email
EmailChanged(body, existingUser) ==
    Has(body, "email") /\ TruthyStr(body.email)
        /\ ToLowerCase(body.email) /= existingUser.email

\* collection.findOne({ email: email.toLowerCase(), userId: { $ne: id } })
emailExists(coll, body, id) ==
    \E u \in DOMAIN coll : u /= id /\ coll[u].email = ToLowerCase(body.email)

\* name.trim() and email.toLowerCase() throw a TypeError on null
PrepareThrows(body) ==
    \/ Has(body, "name") /\ body.name = JsNullStr
    \/ Has(body, "email") /\ body.email = JsNullStr

\* the update document: the supplied fields, normalised, and updatedAt
PrepareUpdateDoc(body, now) ==
    LET part(k, v) == IF Has(body, k) THEN (k :> v) ELSE EmptyBody IN
    ("updatedAt" :> now)
        @@ part("name", IF Has(body, "name") THEN Trim(body.name) ELSE <<>>)
        @@ part("email", IF Has(body, "email")
                           THEN Trim(ToLowerCase(body.email)) ELSE <<>>)
        @@ part("role", IF Has(body, "role") THEN body.role ELSE "")
        @@ part("isVerified", IF Has(body, "isVerified") THEN body.isVerified ELSE FALSE)
        @@ part("status", IF Has(body, "status") THEN body.status ELSE "")

\* lines 77-86, then the call of updateOne
AdminPutPrepare(s, id, body, now) ==
    IF PrepareThrows(body)
    THEN AdminRespond(s, "PUT", 500)
    ELSE AdminContinue(s,
            [IdleAdminReq EXCEPT !.op = "PUT", !.pc = "updateOne", !.id = id,
                                 !.updateDoc = PrepareUpdateDoc(body, now)])

\* lines 11-60: verifyAdminToken, validation, findOne({ userId: id })
AdminPutBegin(s, isAdmin, id, body) ==
    /\ UNCHANGED nvars
    /\ AdminSlotFree(s)
    /\ aStarts' = aStarts + 1
    /\ UNCHANGED <<users, roleSet, delLog>>
    /\ IF ~isAdmin THEN AdminRespond(s, "PUT", 401)
       ELSE IF InvalidRole(body) THEN AdminRespond(s, "PUT", 400)
       ELSE IF InvalidEmail(body) THEN AdminRespond(s, "PUT", 400)
       ELSE IF id \notin DOMAIN users THEN AdminRespond(s, "PUT", 404)
       ELSE IF EmailChanged(body, users[id])
       THEN AdminContinue(s,
                [IdleAdminReq EXCEPT !.op = "PUT", !.pc = "emailCheck", !.id = id,
                                     !.body = body])
       ELSE AdminPutPrepare(s, id, body, aStarts + 1)

\* lines 63-75: the duplicate e-mail lookup
AdminPutEmailCheck(s) ==
    /\ UNCHANGED nvars
    /\ areq[s].op = "PUT" /\ areq[s].pc = "emailCheck"
    /\ UNCHANGED <<users, aStarts, roleSet, delLog>>
    /\ IF emailExists(users, areq[s].body, areq[s].id)
       THEN AdminRespond(s, "PUT", 400)
       ELSE AdminPutPrepare(s, areq[s].id, areq[s].body, aStarts)

\* lines 89-100: updateOne({ userId: id }, { $set: updateDoc })
AdminPutUpdateOne(s) ==
    /\ UNCHANGED nvars
    /\ areq[s].op = "PUT" /\ areq[s].pc = "updateOne"
    /\ UNCHANGED <<aStarts, delLog>>
    /\ IF areq[s].id \in DOMAIN users
       THEN /\ users' = [users EXCEPT ![areq[s].id] = areq[s].updateDoc @@ @]
            /\ roleSet' = (roleSet \/ Has(areq[s].updateDoc, "role"))
            /\ AdminContinue(s, [areq[s] EXCEPT !.pc = "refetch",
                                                 !.updateDoc = EmptyBody])
       ELSE /\ UNCHANGED <<users, roleSet>>
            /\ AdminRespond(s, "PUT", 404)

\* lines 103-114: findOne of the updated user; destructuring null throws
AdminPutRefetch(s) ==
    /\ UNCHANGED nvars
    /\ areq[s].op = "PUT" /\ areq[s].pc = "refetch"
    /\ UNCHANGED <<users, aStarts, roleSet, delLog>>
    /\ AdminRespond(s, "PUT", IF areq[s].id \in DOMAIN users THEN 200 ELSE 500)

-----------------------------------------------------------------------------
(* Admin User DELETE *)

LastAdminGuard_offByOne(adminCount) == adminCount < 1

\* adminCount <= 1
LastAdminGuard(adminCount) == adminCount <= 1

\* lines 129-154: verifyAdminToken, findOne({ userId: id })
AdminDeleteBegin(s, isAdmin, id) ==
    /\ UNCHANGED nvars
    /\ AdminSlotFree(s)
    /\ aStarts' = aStarts + 1
    /\ UNCHANGED <<users, roleSet, delLog>>
    /\ IF ~isAdmin THEN AdminRespond(s, "DELETE", 401)
       ELSE IF id \notin DOMAIN users THEN AdminRespond(s, "DELETE", 404)
       ELSE AdminContinue(s,
                [IdleAdminReq EXCEPT !.op = "DELETE", !.id = id,
                    !.pc = IF users[id].role = "admin" THEN "count" ELSE "deleteOne"])

\* lines 155-163: countDocuments({ role: 'admin' }) and the last-admin guard
AdminDeleteCount(s) ==
    /\ UNCHANGED nvars
    /\ areq[s].op = "DELETE" /\ areq[s].pc = "count"
    /\ UNCHANGED <<users, aStarts, roleSet, delLog>>
    /\ IF LastAdminGuard(AdminCount(users))
       THEN AdminRespond(s, "DELETE", 403)
       ELSE AdminContinue(s, [areq[s] EXCEPT !.pc = "deleteOne",
                                             !.adminCount = AdminCount(users)])

\* lines 166-180: deleteOne({ userId: id })
AdminDeleteOne(s) ==
    /\ UNCHANGED nvars
    /\ areq[s].op = "DELETE" /\ areq[s].pc = "deleteOne"
    /\ UNCHANGED <<aStarts, roleSet>>
    /\ IF areq[s].id \in DOMAIN users
       THEN /\ users' = [u \in DOMAIN users \ {areq[s].id} |-> users[u]]
            /\ delLog' = (areq[s].id :> areq[s].adminCount) @@ delLog
            /\ AdminRespond(s, "DELETE", 200)
       ELSE /\ UNCHANGED <<users, delLog>>
            /\ AdminRespond(s, "DELETE", 404)

-----------------------------------------------------------------------------
(* The admin user resource as a state machine *)

AdminInit ==
    /\ \E roles \in InitialRoles : users = [u \in UserIds |-> UserDoc(u, roles[u])]
    /\ areq = [s \in AdminSlots |-> IdleAdminReq]
    /\ aStarts = 0
    /\ aresp = NoResponse
    /\ roleSet = FALSE
    /\ delLog = [u \in {} |-> 0]

AdminQuiet ==
    /\ users = [u \in {} |-> 0]
    /\ areq = [s \in AdminSlots |-> IdleAdminReq]
    /\ aStarts = 0
    /\ aresp = NoResponse
    /\ roleSet = FALSE
    /\ delLog = [u \in {} |-> 0]

AdminNext ==
    \/ \E s \in AdminSlots, isAdmin \in BOOLEAN,
          id \in UserIds \cup {MissingUserId}, body \in AdminBodies :
            AdminPutBegin(s, isAdmin, id, body)
    \/ \E s \in AdminSlots : AdminPutEmailCheck(s)
    \/ \E s \in AdminSlots : AdminPutUpdateOne(s)
    \/ \E s \in AdminSlots : AdminPutRefetch(s)
    \/ \E s \in AdminSlots, isAdmin \in BOOLEAN, id \in UserIds \cup {MissingUserId} :
            AdminDeleteBegin(s, isAdmin, id)
    \/ \E s \in AdminSlots : AdminDeleteCount(s)
    \/ \E s \in AdminSlots : AdminDeleteOne(s)


-----------------------------------------------------------------------------
(* The Notebook collection *)

Owner == "u1"

\* the users that hold a valid token
Callers == {"u1", "u2"}

\* no auth-token cookie, and a cookie AuthUtils.verifyToken rejects
NoToken == "<none>"
BadToken == "<bad>"

\* the payload of a request without a valid token
NoCaller == ""

Tokens == Callers \cup {NoToken, BadToken}

StoredNotebookId == "nb1"

\* a path parameter that names no stored notebook
MissingNotebookId == "nb0"

NotebookIds == {StoredNotebookId, MissingNotebookId}

NotebookDoc(isPublic, sharedWith, canEdit) ==
    [notebookId |-> StoredNotebookId, userId |-> Owner, title |-> "t0",
     description |-> "d0", cells |-> <<>>, metadata |-> [k1 |-> "v1"],
     sharing |-> [isPublic |-> isPublic, sharedWith |-> sharedWith,
                  permissions |-> [canEdit |-> canEdit]],
     stats |-> [views |-> 0], version |-> 0, lastSaved |-> 0]

\* the notebooks the model starts from: <<isPublic, sharedWith, canEdit>>
InitialSharing ==
    { <<FALSE, {}, FALSE>>, <<TRUE, {}, FALSE>>,
      <<FALSE, {"u2"}, FALSE>>, <<FALSE, {"u2"}, TRUE>> }

\* the query of GET: notebookId and (owner or public or shared with the caller)
GetFilter(nb, caller) ==
    \/ nb.userId = caller
    \/ nb.sharing.isPublic = TRUE
    \/ caller \in nb.sharing.sharedWith

PutFilter_anyShared(nb, caller) ==
    nb.userId = caller \/ caller \in nb.sharing.sharedWith

\* the query of PUT: notebookId and (owner or (shared with the caller and canEdit))
PutFilter(nb, caller) ==
    \/ nb.userId = caller
    \/ (caller \in nb.sharing.sharedWith /\ nb.sharing.permissions.canEdit = TRUE)

DeleteFilter_editors(nb, caller) ==
    nb.userId = caller
        \/ (caller \in nb.sharing.sharedWith /\ nb.sharing.permissions.canEdit = TRUE)

\* the query of DELETE: notebookId and owner
DeleteFilter(nb, caller) == nb.userId = caller

\* request bodies of Notebook PUT; cells is always an array
\* keys of a body outside allowedUpdates
IgnoredPart ==
    [userId |-> "u2", notebookId |-> "nb9", version |-> 9,
     stats |-> [views |-> 9], lastSaved |-> 9]

NotebookBodies ==
    { EmptyBody,
      [title |-> "t1", description |-> "d1"] @@ IgnoredPart,
      [cells |-> << [content |-> <<"a", " ", "b">>],
                    [id |-> "c1", content |-> <<" ", "a">>] >>,
       metadata |-> [k2 |-> "v2"], version |-> 9],
      [sharing |-> [isPublic |-> TRUE]],
      [sharing |-> [sharedWith |-> {}, permissions |-> [canEdit |-> FALSE]]] }

IdleNotebookReq ==
    [op |-> "none", pc |-> "idle", caller |-> NoCaller, id |-> "", body |-> EmptyBody,
     found |-> EmptyBody, doc |-> EmptyBody]

NoNotebookResponse == [op |-> "none", caller |-> NoCaller, id |-> "", status |-> 0]

\* a request is taken by the first free slot (the slots are interchangeable)
NotebookSlotFree(s) ==
    /\ nreq[s].pc = "idle"
    /\ \A t \in NotebookSlots : t < s => nreq[t].pc /= "idle"
    /\ nStarts < MaxNotebookReqs

\* NextResponse.json(..., { status }): the request ends and frees its slot
NotebookRespond(s, op, caller, id, status) ==
    /\ nreq' = [nreq EXCEPT ![s] = IdleNotebookReq]
    /\ nresp' = [op |-> op, caller |-> caller, id |-> id, status |-> status]

NotebookContinue(s, r) ==
    /\ nreq' = [nreq EXCEPT ![s] = r]
    /\ UNCHANGED nresp

\* notebook.save() (mongoose): the paths changed in memory since the document
\* was read are written with $set over the stored document; the other paths
\* keep their stored value
SaveModified(stored, found, doc) ==
    [k \in DOMAIN stored |-> IF doc[k] /= found[k] THEN doc[k] ELSE stored[k]]

-----------------------------------------------------------------------------
(* Notebook GET *)

\* notebook.stats.views += 1
CountView(found) == [found EXCEPT !.stats.views = @ + 1]

\* lines 12-58: token, findOne, the view count of a non-owner
NotebookGetBegin(s, token, id) ==
    /\ UNCHANGED avars
    /\ NotebookSlotFree(s)
    /\ nStarts' = nStarts + 1
    /\ UNCHANGED <<notebooks, activity, putSaved, viewGets>>
    /\ IF token \notin Callers THEN NotebookRespond(s, "GET", NoCaller, id, 401)
       ELSE IF ~(id \in DOMAIN notebooks /\ GetFilter(notebooks[id], token))
       THEN NotebookRespond(s, "GET", token, id, 404)
       ELSE IF notebooks[id].userId /= token
       THEN NotebookContinue(s,
                [IdleNotebookReq EXCEPT !.op = "GET", !.pc = "save", !.caller = token,
                                        !.id = id, !.found = notebooks[id],
                                        !.doc = CountView(notebooks[id])])
       ELSE NotebookRespond(s, "GET", token, id, 200)

\* line 52: notebook.save() of the view count, then the response; save()
\* rejects with DocumentNotFoundError when the document is no longer stored,
\* and the catch of line 60 answers 500
NotebookGetSave(s) ==
    /\ UNCHANGED avars
    /\ nreq[s].op = "GET" /\ nreq[s].pc = "save"
    /\ UNCHANGED <<nStarts, activity, putSaved>>
    /\ IF nreq[s].id \in DOMAIN notebooks
       THEN /\ notebooks' = [notebooks EXCEPT ![nreq[s].id] =
                    SaveModified(@, nreq[s].found, nreq[s].doc)]
            /\ viewGets' = viewGets + 1
            /\ NotebookRespond(s, "GET", nreq[s].caller, nreq[s].id, 200)
       ELSE /\ UNCHANGED <<notebooks, viewGets>>
            /\ NotebookRespond(s, "GET", nreq[s].caller, nreq[s].id, 500)

-----------------------------------------------------------------------------
(* Notebook PUT *)

allowedUpdates_withOwner ==
    {"title", "description", "cells", "metadata", "sharing", "userId"}

allowedUpdates == {"title", "description", "cells", "metadata", "sharing"}

\* cell.id || `cell_${Date.now()}_${random}`: the random suffix is the index
EnsureCellId(cell, now, i) ==
    IF Has(cell, "id") /\ cell.id /= ""
    THEN cell
    ELSE ("id" :> <<"cell", now, i>>) @@ cell

\* lines 115-130: the allowed keys of the body, then lastSaved and version
ApplyUpdates(found, body, now) ==
    LET keys == DOMAIN body \cap allowedUpdates
        val(k) ==
            IF k \notin keys THEN found[k]
            ELSE IF k = "cells"
                 THEN [i \in 1..Len(body.cells) |-> EnsureCellId(body.cells[i], now, i)]
            ELSE IF k \in {"metadata", "sharing"} THEN body[k] @@ found[k]
            ELSE body[k]
    IN [k \in DOMAIN found |->
            IF k \in allowedUpdates THEN val(k)
            ELSE IF k = "lastSaved" THEN now
            ELSE IF k = "version" THEN found.version + 1
            ELSE found[k]]

RECURSIVE CountWords(_, _)
\* content.split(/\s+/).filter(word => word.length > 0).length
CountWords(content, inWord) ==
    IF content = <<>> THEN 0
    ELSE IF Head(content) = " " THEN CountWords(Tail(content), FALSE)
    ELSE (IF inWord THEN 0 ELSE 1) + CountWords(Tail(content), TRUE)

RECURSIVE wordsWritten(_)
\* lines 136-141: the words of every cell with a string content
wordsWritten(cells) ==
    IF cells = <<>> THEN 0
    ELSE (IF Has(Head(cells), "content") THEN CountWords(Head(cells).content, FALSE) ELSE 0)
            + wordsWritten(Tail(cells))

\* lines 74-110: token, body, findOne
NotebookPutBegin(s, token, id, body) ==
    /\ UNCHANGED avars
    /\ NotebookSlotFree(s)
    /\ nStarts' = nStarts + 1
    /\ UNCHANGED <<notebooks, activity, putSaved, viewGets>>
    /\ IF token \notin Callers THEN NotebookRespond(s, "PUT", NoCaller, id, 401)
       ELSE IF ~(id \in DOMAIN notebooks /\ PutFilter(notebooks[id], token))
       THEN NotebookRespond(s, "PUT", token, id, 404)
       ELSE NotebookContinue(s,
                [IdleNotebookReq EXCEPT !.op = "PUT", !.pc = "save", !.caller = token,
                                        !.id = id, !.body = body,
                                        !.found = notebooks[id],
                                        !.doc = ApplyUpdates(notebooks[id], body,
                                                             nStarts + 1)])


\* line 132: notebook.save(); save() rejects when the document is no longer
\* stored, and the catch of line 162 answers 500
NotebookPutSave(s) ==
    /\ UNCHANGED avars
    /\ nreq[s].op = "PUT" /\ nreq[s].pc = "save"
    /\ UNCHANGED <<nStarts, activity, viewGets>>
    /\ IF nreq[s].id \in DOMAIN notebooks
       THEN /\ notebooks' = [notebooks EXCEPT ![nreq[s].id] =
                    SaveModified(@, nreq[s].found, nreq[s].doc)]
            /\ putSaved' = putSaved + 1
            /\ NotebookContinue(s, [nreq[s] EXCEPT !.pc = "track", !.body = EmptyBody,
                                                     !.found = EmptyBody])
       ELSE /\ UNCHANGED <<notebooks, putSaved>>
            /\ NotebookRespond(s, "PUT", nreq[s].caller, nreq[s].id, 500)

\* the record handed to ActivityTracker.trackActivity
ActivityRecord(r) ==
    [userId |-> r.caller, type |-> "notebook_updated", title |-> r.doc.title,
     notebookId |-> r.id, cellsAdded |-> Len(r.doc.cells),
     wordsWritten |-> wordsWritten(r.doc.cells), sessionDuration |-> 5]

\* lines 135-160: trackActivity, whose failure is swallowed, then the response
NotebookPutTrack(s, tracked) ==
    /\ UNCHANGED avars
    /\ nreq[s].op = "PUT" /\ nreq[s].pc = "track"
    /\ UNCHANGED <<notebooks, nStarts, putSaved, viewGets>>
    /\ activity' = IF tracked THEN Append(activity, ActivityRecord(nreq[s]))
                   ELSE activity
    /\ NotebookRespond(s, "PUT", nreq[s].caller, nreq[s].id, 200)

-----------------------------------------------------------------------------
(* Notebook DELETE *)

\* lines 176-212: token, then findOneAndDelete as one database operation
NotebookDelete(s, token, id) ==
    /\ UNCHANGED avars
    /\ NotebookSlotFree(s)
    /\ nStarts' = nStarts + 1
    /\ UNCHANGED <<activity, putSaved, viewGets>>
    /\ IF token \notin Callers
       THEN /\ UNCHANGED notebooks
            /\ NotebookRespond(s, "DELETE", NoCaller, id, 401)
       ELSE IF id \in DOMAIN notebooks /\ DeleteFilter(notebooks[id], token)
       THEN /\ notebooks' = [n \in DOMAIN notebooks \ {id} |-> notebooks[n]]
            /\ NotebookRespond(s, "DELETE", token, id, 200)
       ELSE /\ UNCHANGED notebooks
            /\ NotebookRespond(s, "DELETE", token, id, 404)

-----------------------------------------------------------------------------
(* The two resources as state machines *)

NotebookInit ==
    /\ \E sh \in InitialSharing :
          notebooks = (StoredNotebookId :> NotebookDoc(sh[1], sh[2], sh[3]))
    /\ nreq = [s \in NotebookSlots |-> IdleNotebookReq]
    /\ nStarts = 0
    /\ nresp = NoNotebookResponse
    /\ activity = <<>>
    /\ putSaved = 0
    /\ viewGets = 0

NotebookQuiet ==
    /\ notebooks = [n \in {} |-> 0]
    /\ nreq = [s \in NotebookSlots |-> IdleNotebookReq]
    /\ nStarts = 0
    /\ nresp = NoNotebookResponse
    /\ activity = <<>>
    /\ putSaved = 0
    /\ viewGets = 0

NotebookNext ==
    \/ \E s \in NotebookSlots, token \in Tokens, id \in NotebookIds :
            NotebookGetBegin(s, token, id)
    \/ \E s \in NotebookSlots : NotebookGetSave(s)
    \/ \E s \in NotebookSlots, token \in Tokens, id \in NotebookIds,
          body \in NotebookBodies : NotebookPutBegin(s, token, id, body)
    \/ \E s \in NotebookSlots : NotebookPutSave(s)
    \/ \E s \in NotebookSlots, tracked \in BOOLEAN : NotebookPutTrack(s, tracked)
    \/ \E s \in NotebookSlots, token \in Tokens, id \in NotebookIds :
            NotebookDelete(s, token, id)

\* the admin user resource alone
InitAdmin == AdminInit /\ NotebookQuiet

SpecAdmin == InitAdmin /\ [][AdminNext]_vars

\* the notebook resource alone
InitNotebook == NotebookInit /\ AdminQuiet

SpecNotebook == InitNotebook /\ [][NotebookNext]_vars

-----------------------------------------------------------------------------
(* Properties of the admin user resource *)

\* the admins removed so far: a DELETE of an admin logs the count it read (>= 1)
DeletedAdmins == {u \in DOMAIN delLog : delLog[u] > 0}

\* the number of admins the collection started with, while no role was written
InitialAdmins == AdminCount(users) + Cardinality(DeletedAdmins)

\* C1: from a collection with an admin, every state reached by Admin User PUT
\* and DELETE requests still holds at least one user with role = admin.
C1_AdminAlwaysExists == AdminCount(users) >= 1

\* C7: an Admin User PUT that supplies a role outside {student, teacher, admin}
\* (the empty string and null included) is answered 400 before any write is
\* prepared, so no request past validation carries such a role and every
\* stored role is one of student, teacher, admin.
C7_InvalidRoleNeverWritten ==
    /\ \A s \in AdminSlots :
          (areq[s].op = "PUT" /\ Has(areq[s].updateDoc, "role"))
              => areq[s].updateDoc.role \in Roles
    /\ \A u \in DOMAIN users : users[u].role \in Roles

\* C8: from pairwise distinct e-mails, no state reached by Admin User PUT
\* requests has two distinct users with the same stored e-mail.
C8_EmailsDistinct ==
    \A u, v \in DOMAIN users : u /= v => users[u].email /= users[v].email

\* C10: the last-admin guard is check-then-act.  From exactly two admins and
\* with no role written by a PUT, the collection is left without an admin only
\* by two DELETE requests that both read an admin count of 2, both passed the
\* guard and both committed; and that state is reachable (C10_BothDeleted).
C10_GuardIsCheckThenAct ==
    (~roleSet /\ InitialAdmins = 2 /\ AdminCount(users) = 0)
        => /\ Cardinality(DeletedAdmins) = 2
           /\ \A u \in DeletedAdmins : delLog[u] = 2

C10_BothDeleted ==
    /\ ~roleSet
    /\ InitialAdmins = 2
    /\ AdminCount(users) = 0
    /\ \E u, v \in DeletedAdmins : u /= v /\ delLog[u] = 2 /\ delLog[v] = 2
    /\ aresp = [op |-> "DELETE", status |-> 200]

-----------------------------------------------------------------------------
(* Properties of the notebook resource *)

\* this step answers a request in the step that received it
AnsweredAtOnce == nStarts' = nStarts + 1 /\ nreq' = nreq

\* this step answers the request in flight in slot s
AnsweredFrom(s) == nreq[s].pc /= "idle" /\ nreq'[s].pc = "idle"

\* this step receives a request that stays in flight in slot s
TakenBy(s) == nreq[s].pc = "idle" /\ nreq'[s].pc /= "idle"

\* the caller may read the notebook: owner, public, or shared with the caller
MayRead(nb, c) ==
    nb.userId = c \/ nb.sharing.isPublic \/ c \in nb.sharing.sharedWith

\* the caller may edit the notebook: owner, or shared with the caller and canEdit
MayEdit(nb, c) ==
    nb.userId = c \/ (c \in nb.sharing.sharedWith /\ nb.sharing.permissions.canEdit)

\* C2: a GET by an authenticated caller is answered 200 when the notebook its
\* lookup reads exists and the caller is its owner, or it is public, or it is
\* shared with the caller, and 404 in every other case.
C2_GetOkIffReadable ==
    [][ /\ (AnsweredAtOnce /\ nresp'.op = "GET" /\ nresp'.caller \in Callers)
              => nresp'.status =
                    IF nresp'.id \in DOMAIN notebooks
                          /\ MayRead(notebooks[nresp'.id], nresp'.caller)
                    THEN 200 ELSE 404
        /\ \A s \in NotebookSlots :
              (AnsweredFrom(s) /\ nreq[s].op = "GET")
                  => nresp'.status = IF MayRead(nreq[s].found, nreq[s].caller)
                                     THEN 200 ELSE 404
      ]_vars

\* What the handler does guarantee: the lookup of a GET decides between 404
\* and the rest: 404 exactly when no readable notebook is found; a found
\* notebook is answered 200, except that a non-owner whose notebook is deleted
\* before the save of the view count is answered 500, with nothing written.
C2_GetLookupDecides ==
    [][ /\ (AnsweredAtOnce /\ nresp'.op = "GET" /\ nresp'.caller \in Callers)
              => /\ nresp'.status =
                       IF nresp'.id \in DOMAIN notebooks
                             /\ MayRead(notebooks[nresp'.id], nresp'.caller)
                       THEN 200 ELSE 404
                 /\ nresp'.status = 200 => notebooks[nresp'.id].userId = nresp'.caller
        /\ \A s \in NotebookSlots :
              (TakenBy(s) /\ nreq'[s].op = "GET")
                  => /\ nreq'[s].id \in DOMAIN notebooks
                     /\ MayRead(notebooks[nreq'[s].id], nreq'[s].caller)
                     /\ notebooks[nreq'[s].id].userId /= nreq'[s].caller
        /\ \A s \in NotebookSlots :
              (AnsweredFrom(s) /\ nreq[s].op = "GET")
                  => /\ nresp'.status = IF nreq[s].id \in DOMAIN notebooks
                                        THEN 200 ELSE 500
                     /\ nresp'.status = 500 => notebooks' = notebooks
      ]_vars

\* a non-owner GET found its notebook deleted at the save of the view count
C2_GetRacedDelete ==
    /\ nresp.op = "GET" /\ nresp.status = 500 /\ nresp.caller = "u2"
    /\ nresp.id \notin DOMAIN notebooks

\* C3: a PUT goes past its lookup only for the owner or for a caller in
\* sharedWith while canEdit is true; a PUT by any other authenticated caller is
\* answered 404 in the step of its lookup, with the stored notebooks and the
\* activity records unchanged; and only a PUT past its lookup changes a stored
\* field other than stats or appends an activity record.
C3_PutNeedsEditRight ==
    [][ /\ \A s \in NotebookSlots :
              (TakenBy(s) /\ nreq'[s].op = "PUT")
                  => /\ nreq'[s].id \in DOMAIN notebooks
                     /\ MayEdit(notebooks[nreq'[s].id], nreq'[s].caller)
        /\ (AnsweredAtOnce /\ nresp'.op = "PUT" /\ nresp'.caller \in Callers)
              => /\ nresp'.status = 404
                 /\ ~(nresp'.id \in DOMAIN notebooks
                        /\ MayEdit(notebooks[nresp'.id], nresp'.caller))
                 /\ notebooks' = notebooks
                 /\ activity' = activity
        /\ \A id \in DOMAIN notebooks \cap DOMAIN notebooks' :
              [notebooks'[id] EXCEPT !.stats = notebooks[id].stats] /= notebooks[id]
                  => \E s \in NotebookSlots :
                        nreq[s].op = "PUT" /\ nreq[s].pc = "save" /\ nreq[s].id = id
        /\ activity' /= activity
              => \E s \in NotebookSlots : nreq[s].op = "PUT" /\ nreq[s].pc = "track"
      ]_vars

\* a PUT by a caller the notebook is shared with, without canEdit, answered 404
C3_SharedWithoutEditRefused ==
    /\ nresp = [op |-> "PUT", caller |-> "u2", id |-> StoredNotebookId, status |-> 404]
    /\ StoredNotebookId \in DOMAIN notebooks
    /\ "u2" \in notebooks[StoredNotebookId].sharing.sharedWith
    /\ ~notebooks[StoredNotebookId].sharing.permissions.canEdit
    /\ notebooks[StoredNotebookId].version = 0
    /\ activity = <<>>

\* C4: a DELETE removes a notebook only for the caller whose userId is the
\* notebook's userId; for any other authenticated caller it is answered 404 and
\* the stored notebooks are unchanged; the check and the removal are one step
\* (a DELETE is never in flight), and nothing else removes a notebook.
C4_DeleteOwnerOnly ==
    [][ /\ (AnsweredAtOnce /\ nresp'.op = "DELETE" /\ nresp'.caller \in Callers)
              => IF nresp'.id \in DOMAIN notebooks
                      /\ notebooks[nresp'.id].userId = nresp'.caller
                 THEN /\ nresp'.status = 200
                      /\ notebooks' = [n \in DOMAIN notebooks \ {nresp'.id} |-> notebooks[n]]
                 ELSE /\ nresp'.status = 404
                      /\ notebooks' = notebooks
        /\ \A s \in NotebookSlots : nreq'[s].op /= "DELETE"
        /\ DOMAIN notebooks' /= DOMAIN notebooks
              => /\ AnsweredAtOnce
                 /\ nresp'.op = "DELETE" /\ nresp'.status = 200
                 /\ nresp'.id \in DOMAIN notebooks
                 /\ notebooks[nresp'.id].userId = nresp'.caller
      ]_vars

\* a DELETE by a caller with edit rights who is not the owner, answered 404
C4_EditorDeleteRefused ==
    /\ nresp = [op |-> "DELETE", caller |-> "u2", id |-> StoredNotebookId, status |-> 404]
    /\ StoredNotebookId \in DOMAIN notebooks
    /\ MayEdit(notebooks[StoredNotebookId], "u2")

\* C5: after k successful PUTs, in any order or interleaving, the stored
\* version is the initial version (0) + k.
C5_VersionCountsPuts ==
    \A id \in DOMAIN notebooks : notebooks[id].version = putSaved

\* What the handler does guarantee: every successful PUT stores the version
\* its lookup read + 1 and its own lastSaved, whether or not the body changes
\* a field; that is the stored version + 1 when no other PUT saved since the
\* lookup, and the stored version never exceeds the initial version + the
\* number of successful PUTs.
C5_PutStoresReadVersionPlusOne ==
    [][ /\ \A s \in NotebookSlots :
              (nreq[s].op = "PUT" /\ nreq[s].pc = "save" /\ nreq'[s].pc = "track")
                  => /\ notebooks'[nreq[s].id].version = nreq[s].found.version + 1
                     /\ notebooks'[nreq[s].id].lastSaved = nreq[s].doc.lastSaved
                     /\ nreq[s].doc.lastSaved /= nreq[s].found.lastSaved
                     /\ putSaved' = putSaved + 1
                     /\ nreq[s].found.version = notebooks[nreq[s].id].version
                          => notebooks'[nreq[s].id].version
                                = notebooks[nreq[s].id].version + 1
        /\ \A id \in DOMAIN notebooks' :
              /\ notebooks'[id].version <= putSaved'
              /\ putSaved' >= 1 => notebooks'[id].version >= 1
      ]_vars

\* two PUTs were saved and the second overwrote the version of the first
C5_LostVersion ==
    /\ StoredNotebookId \in DOMAIN notebooks
    /\ putSaved = 2
    /\ notebooks[StoredNotebookId].version = 1
    /\ \A s \in NotebookSlots : nreq[s].pc = "idle"

\* C6: after n successful GETs by non-owners and any number of GETs by the
\* owner, in any order or interleaving, stats.views is the initial value (0) + n.
C6_ViewsCountGets ==
    \A id \in DOMAIN notebooks : notebooks[id].stats.views = viewGets

\* What the handler does guarantee: every successful GET by a non-owner stores
\* the stats.views its lookup read + 1, which is the stored value + 1 when no
\* other GET saved since the lookup; a GET by the owner and every PUT leave
\* stats.views unchanged; and stats.views never exceeds the initial value +
\* the number of successful GETs by non-owners.
C6_GetStoresReadViewsPlusOne ==
    [][ /\ \A s \in NotebookSlots :
              (AnsweredFrom(s) /\ nreq[s].op = "GET" /\ nresp'.status = 200)
                  => /\ nreq[s].caller /= notebooks[nreq[s].id].userId
                     /\ notebooks'[nreq[s].id].stats.views = nreq[s].found.stats.views + 1
                     /\ viewGets' = viewGets + 1
                     /\ nreq[s].found.stats.views = notebooks[nreq[s].id].stats.views
                          => notebooks'[nreq[s].id].stats.views
                                = notebooks[nreq[s].id].stats.views + 1
        /\ \A id \in DOMAIN notebooks \cap DOMAIN notebooks' :
              notebooks'[id].stats /= notebooks[id].stats
                  => \E s \in NotebookSlots :
                        AnsweredFrom(s) /\ nreq[s].op = "GET" /\ nreq[s].id = id
        /\ \A id \in DOMAIN notebooks' :
              /\ notebooks'[id].stats.views <= viewGets'
              /\ viewGets' >= 1 => notebooks'[id].stats.views >= 1
      ]_vars

\* two GETs by a non-owner were answered 200 and one view was lost
C6_LostView ==
    /\ StoredNotebookId \in DOMAIN notebooks
    /\ viewGets = 2
    /\ notebooks[StoredNotebookId].stats.views = 1
    /\ nresp.op = "GET" /\ nresp.status = 200

\* the body without the keys outside title, description, cells, metadata, sharing
WithoutOtherKeys(body) ==
    [k \in DOMAIN body \cap {"title", "description", "cells", "metadata", "sharing"}
        |-> body[k]]

\* C9: the save of a PUT stores what the same request stores with every key
\* other than title, description, cells, metadata and sharing removed from its
\* body; and no step changes the userId or the notebookId of a stored notebook.
C9_OtherKeysIgnored ==
    [][ /\ \A s \in NotebookSlots :
              (nreq[s].op = "PUT" /\ nreq[s].pc = "save" /\ nreq'[s].pc = "track")
                  => notebooks'[nreq[s].id] =
                        SaveModified(notebooks[nreq[s].id], nreq[s].found,
                            ApplyUpdates(nreq[s].found, WithoutOtherKeys(nreq[s].body),
                                         nreq[s].doc.lastSaved))
        /\ \A id \in DOMAIN notebooks \cap DOMAIN notebooks' :
              /\ notebooks'[id].userId = notebooks[id].userId
              /\ notebooks'[id].notebookId = notebooks[id].notebookId
      ]_vars

\* a PUT whose body also carried userId, notebookId, version, stats and
\* lastSaved was saved: the title is the submitted one, the rest is not
C9_BodyWithOtherKeysSaved ==
    /\ StoredNotebookId \in DOMAIN notebooks
    /\ notebooks[StoredNotebookId].title = "t1"
    /\ notebooks[StoredNotebookId].userId = Owner
    /\ notebooks[StoredNotebookId].notebookId = StoredNotebookId
    /\ notebooks[StoredNotebookId].version = 1
    /\ notebooks[StoredNotebookId].stats.views = 0
    /\ putSaved = 1

=============================================================================
